---------------------------- MODULE Spec2Model ----------------------------
(***************************************************************************)
(* simple-capture: the translation of keyword configuration into ffmpeg    *)
(* arguments.  GlobalOptions renders its option table to a list of tokens, *)
(* OutputStream renders its table to an ordered mapping after resolving    *)
(* the mutually exclusive groups, and generate_global_options /            *)
(* generate_output_stream build the ffmpeg node from a fresh table.        *)
(*                                                                         *)
(* One option table is alive at a time: a caller constructs it, reads its  *)
(* ffmpeg_arguments and drops it, or calls a generate_* function, which    *)
(* does the three in one step.                                             *)
(***************************************************************************)
EXTENDS Integers, Sequences, FiniteSets, TLC

VARIABLES
    registry,            \* OutputStream._output_stream_registry: the registered names
    pc,                  \* "idle" | "instance" | "called"
    cls,                 \* class of the live instance: "None" | "GlobalOptions" | "OutputStream"
    kwargs,              \* keyword arguments of the constructor call that made it
    options,             \* self._options, in declaration order: <<[arg, val], ...>>
    mutually_exclusive,  \* self._mutually_exclusive: the recorded groups
    cached,              \* ffmpeg_arguments is stored in the instance (cached_property)
    cache,               \* the stored value
    reads,               \* what each read of ffmpeg_arguments returned
    raised,              \* the exception the last operation raised, or "none"
    call                 \* the last generate_* call: its arguments and what it did

vars == <<registry, pc, cls, kwargs, options, mutually_exclusive, cached, cache,
          reads, raised, call>>

-----------------------------------------------------------------------------
(* Bounds of the model. *)

\* Keyword arguments a call adds to (or changes in) one of the base calls.
MaxKwargs == 1
\* Reads of ffmpeg_arguments on one instance.
MaxReads == 2

-----------------------------------------------------------------------------
(* Python values.  Every value carries all fields so that values of        *)
(* different types compare.                                                *)

None == [t |-> "None", b |-> FALSE, n |-> 0, s |-> ""]
PyBool(b) == [t |-> "bool", b |-> b, n |-> 0, s |-> ""]
PyInt(n) == [t |-> "int", b |-> FALSE, n |-> n, s |-> ""]
PyStr(s) == [t |-> "str", b |-> FALSE, n |-> 0, s |-> s]
\* A float is kept by its repr: the model does no arithmetic on it.
PyFloat(s) == [t |-> "float", b |-> FALSE, n |-> 0, s |-> s]

Digit(d) ==
    CASE d = 0 -> "0" [] d = 1 -> "1" [] d = 2 -> "2" [] d = 3 -> "3" [] d = 4 -> "4"
      [] d = 5 -> "5" [] d = 6 -> "6" [] d = 7 -> "7" [] d = 8 -> "8" [] d = 9 -> "9"

RECURSIVE StrNat(_)
StrNat(n) == IF n < 10 THEN Digit(n) ELSE StrNat(n \div 10) \o Digit(n % 10)

\* str(val) for the values that reach it (neither None nor a bool does).
str(val) ==
    CASE val.t = "int" -> IF val.n < 0 THEN "-" \o StrNat(-val.n) ELSE StrNat(val.n)
      [] val.t = "str" -> val.s
      [] val.t = "float" -> val.s
      [] OTHER -> val.t

\* The values a configuration reader hands over for a parameter of a type.
ValuesOfType(type) ==
    CASE type = "int" -> {PyInt(0), PyInt(12)}
      [] type = "bool" -> {PyBool(TRUE), PyBool(FALSE)}
      [] type = "str" -> {PyStr(""), PyStr("10"), PyStr("20")}
      [] type = "float" -> {PyFloat("29.97")}

Range(seq) == {seq[i] : i \in DOMAIN seq}

\* The position of the entry of a table (a sequence of records with .arg) for arg, 0 if none.
IndexOf(table, arg) ==
    IF \E i \in DOMAIN table : table[i].arg = arg
    THEN CHOOSE i \in DOMAIN table : table[i].arg = arg
    ELSE 0

-----------------------------------------------------------------------------
(* global_options.py *)

\* global_options_parameters(): name -> type, in the order of the dict.
global_options_parameters ==
    << [name |-> "filter_thread_count", type |-> "int"],
       [name |-> "display_stats", type |-> "bool"],
       [name |-> "send_progress", type |-> "bool"],
       [name |-> "show_timestamps", type |-> "bool"],
       [name |-> "show_qp_histogram", type |-> "bool"],
       [name |-> "show_benchmark", type |-> "bool"],
       [name |-> "show_benchmark_verbose", type |-> "bool"],
       [name |-> "exit_time_limit", type |-> "int"],
       [name |-> "dump_input_stderr", type |-> "bool"],
       [name |-> "dump_payload_stderr", type |-> "bool"],
       [name |-> "filter_complex_thread", type |-> "int"],
       [name |-> "dump_sdp_file", type |-> "str"],
       [name |-> "abort_on_flags", type |-> "str"],
       [name |-> "exit_on_error", type |-> "bool"],
       [name |-> "overwrite_output", type |-> "bool"],
       [name |-> "sudo", type |-> "bool"] >>

\* The signature of GlobalOptions.__init__: parameter, default, and the type
\* its docstring gives it.
GlobalOptionsSignature ==
    << [name |-> "filter_thread_count", default |-> None, type |-> "int"],
       [name |-> "show_stats", default |-> PyBool(TRUE), type |-> "bool"],
       [name |-> "send_progress", default |-> PyBool(FALSE), type |-> "bool"],
       [name |-> "show_timestamps", default |-> PyBool(FALSE), type |-> "bool"],
       [name |-> "show_qp_histogram", default |-> PyBool(FALSE), type |-> "bool"],
       [name |-> "show_benchmark", default |-> PyBool(FALSE), type |-> "bool"],
       [name |-> "show_benchmark_verbose", default |-> PyBool(FALSE), type |-> "bool"],
       [name |-> "exit_time_limit", default |-> None, type |-> "int"],
       [name |-> "dump_input_stderr", default |-> PyBool(FALSE), type |-> "bool"],
       [name |-> "dump_payload_stderr", default |-> PyBool(FALSE), type |-> "bool"],
       [name |-> "filter_complex_thread_count", default |-> None, type |-> "int"],
       [name |-> "dump_sdp_file", default |-> None, type |-> "str"],
       [name |-> "abort_on_flags", default |-> None, type |-> "str"],
       [name |-> "exit_on_error", default |-> PyBool(FALSE), type |-> "bool"],
       [name |-> "overwrite_output", default |-> PyBool(FALSE), type |-> "bool"],
       [name |-> "sudo", default |-> PyBool(FALSE), type |-> "bool"] >>

\* The keys of self._options in GlobalOptions.__init__, each with the
\* parameter whose value it takes.
GlobalOptionsTable ==
    << [arg |-> "filter_threads", param |-> "filter_thread_count"],
       [arg |-> "stats", param |-> "show_stats"],
       [arg |-> "progress", param |-> "send_progress"],
       [arg |-> "debug_ts", param |-> "show_timestamps"],
       [arg |-> "qphist", param |-> "show_qp_histogram"],
       [arg |-> "benchmark", param |-> "show_benchmark"],
       [arg |-> "benchmark_all", param |-> "show_benchmark_verbose"],
       [arg |-> "timelimit", param |-> "exit_time_limit"],
       [arg |-> "dump", param |-> "dump_input_stderr"],
       [arg |-> "hex", param |-> "dump_payload_stderr"],
       [arg |-> "filter_complex_threads", param |-> "filter_complex_thread_count"],
       [arg |-> "sdp_file", param |-> "dump_sdp_file"],
       [arg |-> "abort_on", param |-> "abort_on_flags"],
       [arg |-> "xerror", param |-> "exit_on_error"],
       [arg |-> "y", param |-> "overwrite_output"] >>

\* self._doubly_named_flags
doubly_named_flags == [arg \in {"stats", "y"} |-> IF arg = "stats" THEN "nostats" ELSE "n"]

\* Python's binding of keyword arguments to a signature: the exception it
\* raises, or "none".  A required parameter is one whose default is absent
\* from the signature (required names it).
BindError(signature, required, kw) ==
    IF \E k \in DOMAIN kw : \A i \in DOMAIN signature : signature[i].name # k
    THEN "TypeError: unexpected keyword argument"
    ELSE IF \E r \in required : r \notin DOMAIN kw
    THEN "TypeError: missing required argument"
    ELSE "none"

\* The value a parameter is bound to: the keyword argument, or the default.
Bound(signature, kw, param) ==
    IF param \in DOMAIN kw
    THEN kw[param]
    ELSE LET i == CHOOSE j \in DOMAIN signature : signature[j].name = param
         IN signature[i].default

\* Faulty variant of GlobalOptions.__init__: every default taken as None.
GlobalOptionsInitDefaultsNone(kw) ==
    [i \in DOMAIN GlobalOptionsTable |->
        [arg |-> GlobalOptionsTable[i].arg,
         val |-> IF GlobalOptionsTable[i].param \in DOMAIN kw
                 THEN kw[GlobalOptionsTable[i].param]
                 ELSE None]]

\* GlobalOptions.__init__: self._options
GlobalOptionsInit(kw) ==
    [i \in DOMAIN GlobalOptionsTable |->
        [arg |-> GlobalOptionsTable[i].arg,
         val |-> Bound(GlobalOptionsSignature, kw, GlobalOptionsTable[i].param)]]

\* Faulty variant of the loop body: a false flag is always left out, the
\* second name forgotten.
GlobalAppendNoDual(arg, val) ==
    IF val = None
    THEN <<>>
    ELSE IF val.t = "bool"
    THEN IF val.b THEN << [opt |-> arg, tok |-> "-" \o arg] >> ELSE <<>>
    ELSE << [opt |-> arg, tok |-> "-" \o arg], [opt |-> arg, tok |-> str(val)] >>

\* Faulty variant of the loop body: "if not val: continue", which also skips
\* False, 0 and the empty string.
GlobalAppendTruthy(arg, val) ==
    IF val = None \/ val = PyBool(FALSE) \/ val = PyInt(0) \/ val = PyStr("")
    THEN <<>>
    ELSE IF val.t = "bool"
    THEN << [opt |-> arg, tok |-> "-" \o arg] >>
    ELSE << [opt |-> arg, tok |-> "-" \o arg], [opt |-> arg, tok |-> str(val)] >>

\* Faulty variant of the loop body: no test for None, which then takes the
\* last branch.
GlobalAppendNone(arg, val) ==
    IF val.t = "bool"
    THEN IF val.b
         THEN << [opt |-> arg, tok |-> "-" \o arg] >>
         ELSE IF arg \in DOMAIN doubly_named_flags
              THEN << [opt |-> arg, tok |-> "-" \o doubly_named_flags[arg]] >>
              ELSE <<>>
    ELSE << [opt |-> arg, tok |-> "-" \o arg], [opt |-> arg, tok |-> str(val)] >>

\* One pass of the loop of GlobalOptions.ffmpeg_arguments: what the option
\* (arg, val) appends.  Each token is kept with the option that appended it.
GlobalAppend(arg, val) ==
    IF val = None
    THEN <<>>
    ELSE IF val.t = "bool"
    THEN IF val.b
         THEN << [opt |-> arg, tok |-> "-" \o arg] >>
         ELSE IF arg \in DOMAIN doubly_named_flags
              THEN << [opt |-> arg, tok |-> "-" \o doubly_named_flags[arg]] >>
              ELSE <<>>
    ELSE << [opt |-> arg, tok |-> "-" \o arg], [opt |-> arg, tok |-> str(val)] >>

\* Faulty variant of the loop: each option's tokens inserted at the front.
RECURSIVE GlobalLoopInsertFront(_, _, _)
GlobalLoopInsertFront(opts, i, acc) ==
    IF i > Len(opts)
    THEN acc
    ELSE GlobalLoopInsertFront(opts, i + 1, GlobalAppend(opts[i].arg, opts[i].val) \o acc)

RECURSIVE GlobalLoop(_, _, _)
GlobalLoop(opts, i, acc) ==
    IF i > Len(opts)
    THEN acc
    ELSE GlobalLoop(opts, i + 1, acc \o GlobalAppend(opts[i].arg, opts[i].val))

\* GlobalOptions.ffmpeg_arguments, computed afresh.
GlobalFfmpegArguments(opts) == GlobalLoop(opts, 1, <<>>)

\* The list of strings the caller sees.
Tokens(entries) == [i \in DOMAIN entries |-> entries[i].tok]


\* ffmpeg.global_args(stream, *args): the node the library builds from the
\* unpacked tokens.
global_args(args) == [kind |-> "node", fn |-> "global_args", args |-> args]

-----------------------------------------------------------------------------
(* output_streams.py *)

\* output_stream_parameters(): name -> type, in the order of the dict.
output_stream_parameters ==
    << [name |-> "filename", type |-> "str"],
       [name |-> "fmt", type |-> "str"],
       [name |-> "video_codec", type |-> "str"],
       [name |-> "audio_codec", type |-> "str"],
       [name |-> "file_size", type |-> "int"],
       [name |-> "duration", type |-> "str"],
       [name |-> "end_position", type |-> "str"],
       [name |-> "seek_position", type |-> "str"],
       [name |-> "timestamp", type |-> "str"],
       [name |-> "target", type |-> "str"],
       [name |-> "preset", type |-> "str"],
       [name |-> "framerate", type |-> "float"],
       [name |-> "video_size", type |-> "str"],
       [name |-> "aspect_ratio", type |-> "str"],
       [name |-> "pixel_format", type |-> "str"],
       [name |-> "sample_rate", type |-> "int"],
       [name |-> "channels", type |-> "int"],
       [name |-> "sample_format", type |-> "str"],
       [name |-> "fourcc", type |-> "str"],
       [name |-> "minimum_rate", type |-> "str"],
       [name |-> "maximum_rate", type |-> "str"],
       [name |-> "buffer_size", type |-> "str"] >>

\* The signature of OutputStream.__init__; filename has no default.
OutputStreamSignature ==
    << [name |-> "filename", default |-> None, type |-> "str"],
       [name |-> "fmt", default |-> None, type |-> "str"],
       [name |-> "video_codec", default |-> None, type |-> "str"],
       [name |-> "audio_codec", default |-> None, type |-> "str"],
       [name |-> "file_size", default |-> None, type |-> "int"],
       [name |-> "duration", default |-> None, type |-> "str"],
       [name |-> "end_position", default |-> None, type |-> "str"],
       [name |-> "seek_position", default |-> None, type |-> "str"],
       [name |-> "timestamp", default |-> None, type |-> "str"],
       [name |-> "target", default |-> None, type |-> "str"],
       [name |-> "preset", default |-> None, type |-> "str"],
       [name |-> "framerate", default |-> None, type |-> "float"],
       [name |-> "video_size", default |-> None, type |-> "str"],
       [name |-> "aspect_ratio", default |-> None, type |-> "str"],
       [name |-> "pixel_format", default |-> None, type |-> "str"],
       [name |-> "sample_rate", default |-> None, type |-> "int"],
       [name |-> "channels", default |-> None, type |-> "int"],
       [name |-> "sample_format", default |-> None, type |-> "str"],
       [name |-> "fourcc", default |-> None, type |-> "str"],
       [name |-> "minimum_rate", default |-> None, type |-> "str"],
       [name |-> "maximum_rate", default |-> None, type |-> "str"],
       [name |-> "buffer_size", default |-> None, type |-> "str"] >>

OutputStreamRequired == {"filename"}

\* The keys of self._options in OutputStream.__init__, each with the
\* parameter whose value it takes.
OutputStreamTable ==
    << [arg |-> "filename", param |-> "filename"],
       [arg |-> "format", param |-> "fmt"],
       [arg |-> "fs", param |-> "file_size"],
       [arg |-> "vcodec", param |-> "video_codec"],
       [arg |-> "acodec", param |-> "audio_codec"],
       [arg |-> "t", param |-> "duration"],
       [arg |-> "to", param |-> "end_position"],
       [arg |-> "ss", param |-> "seek_position"],
       [arg |-> "timestamp", param |-> "timestamp"],
       [arg |-> "target", param |-> "target"],
       [arg |-> "pre", param |-> "preset"],
       [arg |-> "framerate", param |-> "framerate"],
       [arg |-> "s", param |-> "video_size"],
       [arg |-> "aspect", param |-> "aspect_ratio"],
       [arg |-> "pix_fmt", param |-> "pixel_format"],
       [arg |-> "ar", param |-> "sample_rate"],
       [arg |-> "ac", param |-> "channels"],
       [arg |-> "sample_fmt", param |-> "sample_format"],
       [arg |-> "atag", param |-> "fourcc"],
       [arg |-> "minrate", param |-> "minimum_rate"],
       [arg |-> "maxrate", param |-> "maximum_rate"],
       [arg |-> "bufsize", param |-> "buffer_size"] >>

\* OutputStream.__init__: self._options
OutputStreamInit(kw) ==
    [i \in DOMAIN OutputStreamTable |->
        [arg |-> OutputStreamTable[i].arg,
         val |-> Bound(OutputStreamSignature, kw, OutputStreamTable[i].param)]]

\* _define_mutually_exclusive(*args) on the list groups
define_mutually_exclusive(groups, args) ==
    IF Len(args) <= 1 THEN groups ELSE Append(groups, args)

\* The groups a constructor leaves: OutputStream.__init__ defines ('t', 'to'),
\* and the constructor of a subclass goes on with the calls in extra.
RECURSIVE DefineAll(_, _, _)
DefineAll(groups, extra, i) ==
    IF i > Len(extra)
    THEN groups
    ELSE DefineAll(define_mutually_exclusive(groups, extra[i]), extra, i + 1)

MutuallyExclusiveInit(extra) ==
    DefineAll(define_mutually_exclusive(<<>>, <<"t", "to">>), extra, 1)

\* An ordered dict is the sequence of its entries [arg, val]; its keys:
Keys(d) == {d[i].arg : i \in DOMAIN d}

\* del d[arg], arg a key of d: the other entries keep their order.
Del(d, arg) == SelectSeq(d, LAMBDA e : e.arg # arg)

\* Faulty variant of the inner loop: nothing is deleted.
DelEachNothing(st, to_remove, j) == st

\* for arg in to_remove: del filtered_options[arg].  A del of a key that is
\* not (or no longer) there raises KeyError and ends the loop.
RECURSIVE DelEach(_, _, _)
DelEach(st, to_remove, j) ==
    IF j > Len(to_remove) \/ st.exc # "none"
    THEN st
    ELSE IF to_remove[j] \in Keys(st.d)
    THEN DelEach([d |-> Del(st.d, to_remove[j]), exc |-> "none"], to_remove, j + 1)
    ELSE [d |-> st.d, exc |-> "KeyError"]

\* Faulty variant of _process_mutually_exclusive: to_remove = found[:-1],
\* which keeps the last member found.
RECURSIVE ProcessKeepLast(_, _, _)
ProcessKeepLast(groups, st, i) ==
    IF i > Len(groups) \/ st.exc # "none"
    THEN st
    ELSE LET found == SelectSeq(groups[i], LAMBDA arg : arg \in Keys(st.d))
         IN IF Len(found) <= 1
            THEN ProcessKeepLast(groups, st, i + 1)
            ELSE ProcessKeepLast(groups,
                                 DelEach(st, SubSeq(found, 1, Len(found) - 1), 1), i + 1)

\* _process_mutually_exclusive(filtered_options), from group i on.
RECURSIVE process_mutually_exclusive(_, _, _)
process_mutually_exclusive(groups, st, i) ==
    IF i > Len(groups) \/ st.exc # "none"
    THEN st
    ELSE LET found == SelectSeq(groups[i], LAMBDA arg : arg \in Keys(st.d))
         IN IF Len(found) <= 1
            THEN process_mutually_exclusive(groups, st, i + 1)
            ELSE process_mutually_exclusive(groups, DelEach(st, Tail(found), 1), i + 1)

\* filtered_options = {arg: value for ... if value is not None}
Filtered(opts) == SelectSeq(opts, LAMBDA e : e.val # None)

\* OutputStream.ffmpeg_arguments, computed afresh: the mapping, or the
\* exception that ends the computation.
OutputFfmpegArguments(opts, groups) ==
    process_mutually_exclusive(groups, [d |-> Filtered(opts), exc |-> "none"], 1)

\* ffmpeg.output(*args, **kwargs): the node the library builds from the
\* unpacked mapping.
output(kw) == [kind |-> "node", fn |-> "output", args |-> kw]

-----------------------------------------------------------------------------
(* The calls the model makes. *)

\* Keyword arguments are a function from the names given to their values.
NoKwargs == [name \in {} |-> None]

Put(kw, name, val) ==
    [x \in (DOMAIN kw) \cup {name} |-> IF x = name THEN val ELSE kw[x]]

\* The calls that give up to k keyword arguments of params (records with
\* name and type) on top of a call of bases, or in place of one it gives.
RECURSIVE KwargsUpTo(_, _, _)
KwargsUpTo(bases, params, k) ==
    IF k = 0
    THEN bases
    ELSE LET less == KwargsUpTo(bases, params, k - 1)
         IN less \cup UNION {{Put(kw, p.name, val) :
                                  kw \in less, val \in ValuesOfType(p.type) \cup {None}} :
                               p \in params}

NameAndType(table) == {[name |-> table[i].name, type |-> table[i].type] : i \in DOMAIN table}

\* A call with every parameter of the signature given as None.
AllNone(signature) == [name \in {signature[i].name : i \in DOMAIN signature} |-> None]

\* Keyword arguments for GlobalOptions: the names of its signature and of
\* global_options_parameters(), on a call with no arguments or with all None.
GlobalKwargs ==
    KwargsUpTo({NoKwargs, AllNone(GlobalOptionsSignature)},
               NameAndType(GlobalOptionsSignature) \cup NameAndType(global_options_parameters),
               MaxKwargs)

\* Keyword arguments for OutputStream: the names of its signature and of
\* output_stream_parameters(), on a call with or without a filename, a
\* duration and an end position.
OutputBaseCalls ==
    LET file == Put(NoKwargs, "filename", PyStr("out.mp4"))
        both(kw) == Put(Put(kw, "duration", PyStr("10")), "end_position", PyStr("20"))
    IN {NoKwargs, file, both(NoKwargs), both(file)}

OutputKwargs ==
    KwargsUpTo(OutputBaseCalls,
               NameAndType(OutputStreamSignature) \cup NameAndType(output_stream_parameters),
               MaxKwargs)

\* The _define_mutually_exclusive calls the constructor of a subclass of
\* OutputStream makes after OutputStream.__init__.
ExtraGroupCalls ==
    { <<>>,
      << <<"ss">> >>,
      << <<"to", "t">> >>,
      << <<"to", "ss">> >>,
      << <<"ss", "ac">> >>,
      << <<"ss", "t">>, <<"ar", "ac">> >>,
      << <<"t", "t">> >>,
      << <<"ss", "to", "to">> >> }

\* The names subclasses of OutputStream are declared with, and the names
\* generate_output_stream is asked for.
SubclassNames == {"file-stream"}
LookupNames == {"other-stream", "file-stream", "no-such-stream"}

NoCall == [fn |-> "none", name |-> "", kwargs |-> NoKwargs, instantiated |-> FALSE,
           logged_error |-> FALSE, returned |-> [kind |-> "none"]]

\* The class statement of OutputStream leaves the registry empty;
\* output_stream(OutputStream), which ends the module, goes through
\* streams.stream, whose code is not in these files: whether it enters the
\* class under its own stream_name, 'other-stream', is left open.
Init ==
    /\ registry \in {{}, {"other-stream"}}
    /\ pc = "idle"
    /\ cls = "None"
    /\ kwargs = NoKwargs
    /\ options = <<>>
    /\ mutually_exclusive = <<>>
    /\ cached = FALSE
    /\ cache = <<>>
    /\ reads = <<>>
    /\ raised = "none"
    /\ call = NoCall

\* OutputStream.__init_subclass__: a subclass registers under its stream_name.
InitSubclass(stream_name) ==
    /\ registry' = registry \cup {stream_name}
    /\ UNCHANGED <<pc, cls, kwargs, options, mutually_exclusive, cached, cache,
                   reads, raised, call>>

\* GlobalOptions(**kw)
NewGlobalOptions(kw) ==
    /\ pc = "idle"
    /\ kwargs' = kw
    /\ raised' = BindError(GlobalOptionsSignature, {}, kw)
    /\ IF raised' = "none"
       THEN /\ pc' = "instance"
            /\ cls' = "GlobalOptions"
            /\ options' = GlobalOptionsInit(kw)
       ELSE /\ pc' = "raised"
            /\ UNCHANGED <<cls, options>>
    /\ UNCHANGED <<registry, mutually_exclusive, cached, cache, reads, call>>

\* OutputStream(**kw), or a subclass of it whose constructor defines the
\* groups of extra as well.
NewOutputStream(kw, extra) ==
    /\ pc = "idle"
    /\ kwargs' = kw
    /\ raised' = BindError(OutputStreamSignature, OutputStreamRequired, kw)
    /\ IF raised' = "none"
       THEN /\ pc' = "instance"
            /\ cls' = "OutputStream"
            /\ options' = OutputStreamInit(kw)
            /\ mutually_exclusive' = MutuallyExclusiveInit(extra)
       ELSE /\ pc' = "raised"
            /\ UNCHANGED <<cls, options, mutually_exclusive>>
    /\ UNCHANGED <<registry, cached, cache, reads, call>>

\* Faulty variant: no caching, and a list kept on the instance that every
\* read appends to.
cached_property_accumulate(is_cached, stored, fresh) == stored \o fresh

\* functools.cached_property: the stored value once there is one.
cached_property(is_cached, stored, fresh) == IF is_cached THEN stored ELSE fresh

\* A read of GlobalOptions.ffmpeg_arguments
ReadGlobal ==
    /\ pc = "instance"
    /\ cls = "GlobalOptions"
    /\ Len(reads) < MaxReads
    /\ LET value == cached_property(cached, cache, GlobalFfmpegArguments(options))
       IN /\ cached' = TRUE
          /\ cache' = value
          /\ reads' = Append(reads, value)
    /\ raised' = "none"
    /\ UNCHANGED <<registry, pc, cls, kwargs, options, mutually_exclusive, call>>

\* A read of OutputStream.ffmpeg_arguments: an exception in the getter
\* leaves nothing stored.
ReadOutput ==
    /\ pc = "instance"
    /\ cls = "OutputStream"
    /\ Len(reads) < MaxReads
    /\ LET fresh == OutputFfmpegArguments(options, mutually_exclusive)
       IN IF ~cached /\ fresh.exc # "none"
          THEN /\ raised' = fresh.exc
               /\ UNCHANGED <<cached, cache, reads>>
          ELSE LET value == cached_property(cached, cache, fresh.d)
               IN /\ cached' = TRUE
                  /\ cache' = value
                  /\ reads' = Append(reads, value)
                  /\ raised' = "none"
    /\ UNCHANGED <<registry, pc, cls, kwargs, options, mutually_exclusive, call>>

\* generate_global_options(name, stream, **kw)
GenerateGlobalOptions(kw) ==
    /\ pc = "idle"
    /\ pc' = "called"
    /\ raised' = BindError(GlobalOptionsSignature, {}, kw)
    /\ call' = [fn |-> "generate_global_options", name |-> "", kwargs |-> kw,
                instantiated |-> raised' = "none", logged_error |-> FALSE,
                returned |->
                    IF raised' = "none"
                    THEN global_args(Tokens(GlobalFfmpegArguments(GlobalOptionsInit(kw))))
                    ELSE [kind |-> "none"]]
    /\ UNCHANGED <<registry, cls, kwargs, options, mutually_exclusive, cached, cache, reads>>

\* Faulty variant of generate_output_stream: registry[name] in place of
\* registry.get(name), so that a miss raises KeyError.
GenerateOutputStreamSubscript(name, kw) ==
    /\ pc = "idle"
    /\ pc' = "called"
    /\ LET err == IF name \notin registry
                  THEN "KeyError"
                  ELSE BindError(OutputStreamSignature, OutputStreamRequired, kw)
           fresh == OutputFfmpegArguments(OutputStreamInit(kw), MutuallyExclusiveInit(<<>>))
       IN /\ raised' = IF err # "none" THEN err ELSE fresh.exc
          /\ call' = [fn |-> "generate_output_stream", name |-> name, kwargs |-> kw,
                      instantiated |-> err = "none", logged_error |-> FALSE,
                      returned |-> IF raised' = "none"
                                   THEN output(fresh.d)
                                   ELSE [kind |-> "none"]]
    /\ UNCHANGED <<registry, cls, kwargs, options, mutually_exclusive, cached, cache, reads>>

\* generate_output_stream(name, *args, **kw)
GenerateOutputStream(name, kw) ==
    /\ pc = "idle"
    /\ pc' = "called"
    /\ IF name \notin registry
       THEN /\ raised' = "none"
            /\ call' = [fn |-> "generate_output_stream", name |-> name, kwargs |-> kw,
                        instantiated |-> FALSE, logged_error |-> TRUE,
                        returned |-> [kind |-> "None"]]
       ELSE LET err == BindError(OutputStreamSignature, OutputStreamRequired, kw)
                fresh == OutputFfmpegArguments(OutputStreamInit(kw),
                                               MutuallyExclusiveInit(<<>>))
            IN /\ raised' = IF err # "none" THEN err ELSE fresh.exc
               /\ call' = [fn |-> "generate_output_stream", name |-> name, kwargs |-> kw,
                           instantiated |-> err = "none", logged_error |-> FALSE,
                           returned |-> IF raised' = "none"
                                        THEN output(fresh.d)
                                        ELSE [kind |-> "none"]]
    /\ UNCHANGED <<registry, cls, kwargs, options, mutually_exclusive, cached, cache, reads>>

\* The caller uses what the last read returned the way the generate_*
\* functions do: unpacked, with * or **, into the call that builds the node.
\* The unpacking copies, and the call gets no reference to the stored value.
PassArguments ==
    /\ pc = "instance"
    /\ reads # <<>>
    /\ call.fn = "none"
    /\ call' = [fn |-> "use", name |-> "", kwargs |-> NoKwargs, instantiated |-> FALSE,
                logged_error |-> FALSE,
                returned |-> IF cls = "GlobalOptions"
                             THEN global_args(Tokens(reads[Len(reads)]))
                             ELSE output(reads[Len(reads)])]
    /\ UNCHANGED <<registry, pc, cls, kwargs, options, mutually_exclusive, cached, cache,
                   reads, raised>>

\* The instance, or the result of the call, goes out of scope.
Discard ==
    /\ pc # "idle"
    /\ pc' = "idle"
    /\ cls' = "None"
    /\ kwargs' = NoKwargs
    /\ options' = <<>>
    /\ mutually_exclusive' = <<>>
    /\ cached' = FALSE
    /\ cache' = <<>>
    /\ reads' = <<>>
    /\ raised' = "none"
    /\ call' = NoCall
    /\ UNCHANGED registry

\* A constructor or a generate_* call starts where nothing is alive.
Next ==
    \/ \E stream_name \in SubclassNames : InitSubclass(stream_name)
    \/ pc = "idle" /\ \E kw \in GlobalKwargs : NewGlobalOptions(kw)
    \/ pc = "idle" /\ \E kw \in OutputKwargs, extra \in ExtraGroupCalls :
                         NewOutputStream(kw, extra)
    \/ ReadGlobal
    \/ ReadOutput
    \/ PassArguments
    \/ pc = "idle" /\ \E kw \in GlobalKwargs : GenerateGlobalOptions(kw)
    \/ pc = "idle" /\ \E name \in LookupNames, kw \in OutputKwargs :
                         GenerateOutputStream(name, kw)
    \/ Discard

Spec == Init /\ [][Next]_vars

-----------------------------------------------------------------------------
(* Properties. *)

Count(seq, x) == Cardinality({i \in DOMAIN seq : seq[i] = x})

\* A GlobalOptions (an OutputStream) whose ffmpeg_arguments has been read.
RenderedGlobal == pc = "instance" /\ cls = "GlobalOptions" /\ cached
RenderedOutput == pc = "instance" /\ cls = "OutputStream" /\ cached

\* The tokens of the rendered list that the option arg appended.
ContributedBy(arg) == Tokens(SelectSeq(cache, LAMBDA e : e.opt = arg))

\* The flags of the table whose value is not None.
Present == {options[i].arg : i \in {j \in DOMAIN options : options[j].val # None}}

ValueOf(arg) == options[IndexOf(options, arg)].val

\* C1: in the list GlobalOptions.ffmpeg_arguments returns, a boolean option
\* f that is true contributes the one token -f; one that is false
\* contributes nothing when f has no second name, and the one token -g,
\* and no -f, when it has the second name g (stats -> nostats, y -> n).
C1_BooleanFlags ==
    RenderedGlobal =>
        \A i \in DOMAIN options :
            LET arg == options[i].arg
                val == options[i].val
                toks == Tokens(cache)
            IN val.t = "bool" =>
                 IF val.b
                 THEN ContributedBy(arg) = << "-" \o arg >> /\ Count(toks, "-" \o arg) = 1
                 ELSE IF arg = "stats"
                 THEN /\ ContributedBy(arg) = << "-nostats" >>
                      /\ Count(toks, "-nostats") = 1
                      /\ Count(toks, "-stats") = 0
                 ELSE IF arg = "y"
                 THEN /\ ContributedBy(arg) = << "-n" >>
                      /\ Count(toks, "-n") = 1
                      /\ Count(toks, "-y") = 0
                 ELSE ContributedBy(arg) = <<>> /\ Count(toks, "-" \o arg) = 0

\* A rendered table with a true flag, a false flag without a second name
\* and a false flag with one.
C1_Witness ==
    /\ RenderedGlobal
    /\ ValueOf("stats") = PyBool(TRUE)
    /\ ValueOf("progress") = PyBool(FALSE)
    /\ ValueOf("y") = PyBool(FALSE)
    /\ Tokens(cache) = << "-stats", "-n" >>

\* The string form of the values the model passes, written out.
ExpectedStr(val) ==
    CASE val = PyInt(0) -> "0"
      [] val = PyInt(12) -> "12"
      [] val.t = "str" -> val.s

\* C2: in the list GlobalOptions.ffmpeg_arguments returns, an option f whose
\* value is an int or a string (0 and the empty string included) contributes
\* exactly two tokens, next to each other: -f, then the string form of the
\* value.
C2_ValueOptions ==
    RenderedGlobal =>
        \A i \in DOMAIN options :
            LET arg == options[i].arg
                val == options[i].val
            IN val.t \in {"int", "str"} =>
                 /\ ContributedBy(arg) = << "-" \o arg, ExpectedStr(val) >>
                 /\ \E k \in 1..(Len(cache) - 1) :
                       /\ cache[k] = [opt |-> arg, tok |-> "-" \o arg]
                       /\ cache[k + 1] = [opt |-> arg, tok |-> ExpectedStr(val)]

\* A rendered table with the value 0, which renders as "-filter_threads", "0".
C2_Witness ==
    /\ RenderedGlobal
    /\ ValueOf("filter_threads") = PyInt(0)
    /\ \E k \in 1..(Len(cache) - 1) :
          Tokens(cache)[k] = "-filter_threads" /\ Tokens(cache)[k + 1] = "0"

C4_OnlySuppliedRendered ==
    (RenderedGlobal /\ DOMAIN kwargs = {"show_stats"}) =>
        /\ kwargs["show_stats"] = PyBool(FALSE) => Tokens(cache) = << "-nostats" >>
        /\ kwargs["show_stats"] = PyBool(TRUE) => Tokens(cache) = << "-stats" >>

\* C4, amended: a table in which stats is the only value that is not None
\* renders ["-nostats"] for False and ["-stats"] for True; GlobalOptions
\* constructed with only show_stats given renders "-n" after it, for
\* overwrite_output, whose default is False and whose second name is n, and
\* no token for any other option.
C4_StatsAndDefaults ==
    /\ (RenderedGlobal /\ Present = {"stats"}) =>
          /\ ValueOf("stats") = PyBool(FALSE) => Tokens(cache) = << "-nostats" >>
          /\ ValueOf("stats") = PyBool(TRUE) => Tokens(cache) = << "-stats" >>
    /\ (RenderedGlobal /\ DOMAIN kwargs = {"show_stats"}) =>
          /\ kwargs["show_stats"] = PyBool(FALSE) => Tokens(cache) = << "-nostats", "-n" >>
          /\ kwargs["show_stats"] = PyBool(TRUE) => Tokens(cache) = << "-stats", "-n" >>

\* GlobalOptions(show_stats=False), rendered.
C4_Witness ==
    /\ RenderedGlobal
    /\ DOMAIN kwargs = {"show_stats"}
    /\ kwargs["show_stats"] = PyBool(FALSE)
    /\ Tokens(cache) = << "-nostats", "-n" >>

\* C5: an option whose value is None contributes nothing to the rendered
\* result of either class, and a table whose values are all None renders
\* empty.
C5_AbsentContributesNothing ==
    /\ RenderedGlobal =>
          /\ \A i \in DOMAIN options :
                options[i].val = None =>
                    /\ ContributedBy(options[i].arg) = <<>>
                    /\ Count(Tokens(cache), "-" \o options[i].arg) = 0
          /\ Present = {} => cache = <<>>
    /\ RenderedOutput =>
          /\ \A i \in DOMAIN options :
                options[i].val = None => options[i].arg \notin Keys(cache)
          /\ Present = {} => cache = <<>>

\* A GlobalOptions whose values are all None, rendered.
C5_Witness == RenderedGlobal /\ Present = {} /\ Len(options) = Len(GlobalOptionsTable)

\* C6: the rendered result follows the order of the table: in the list of
\* GlobalOptions the tokens of an option declared earlier all come before
\* those of one declared later, and the entries of the mapping of
\* OutputStream are in the order of the table, also after the exclusion step
\* has removed an entry.
C6_DeclaredOrder ==
    /\ RenderedGlobal =>
          \A i, j \in DOMAIN cache :
              i < j => /\ IndexOf(GlobalOptionsTable, cache[i].opt) > 0
                       /\ IndexOf(GlobalOptionsTable, cache[i].opt)
                            <= IndexOf(GlobalOptionsTable, cache[j].opt)
    /\ RenderedOutput =>
          \A i, j \in DOMAIN cache :
              i < j => /\ IndexOf(OutputStreamTable, cache[i].arg) > 0
                       /\ IndexOf(OutputStreamTable, cache[i].arg)
                            < IndexOf(OutputStreamTable, cache[j].arg)

\* An OutputStream rendered with an entry removed by the exclusion step and
\* entries on both sides of it.
C6_Witness ==
    /\ RenderedOutput
    /\ "to" \in Present
    /\ "to" \notin Keys(cache)
    /\ \E i, j \in DOMAIN cache :
          /\ IndexOf(OutputStreamTable, cache[i].arg) < IndexOf(OutputStreamTable, "to")
          /\ IndexOf(OutputStreamTable, cache[j].arg) > IndexOf(OutputStreamTable, "to")

ParamOf(arg) == OutputStreamTable[IndexOf(OutputStreamTable, arg)].param

\* C8: generate_output_stream with a name that is not in the registry
\* returns None, raises nothing and instantiates nothing; with a registered
\* name it does not return None, and what it returns is the output node
\* built from the arguments of the instance it made from the keyword
\* arguments.
C8_Lookup ==
    [][(pc = "idle" /\ call'.fn = "generate_output_stream") =>
          IF call'.name \notin registry
          THEN /\ call'.returned = [kind |-> "None"]
               /\ raised' = "none"
               /\ ~call'.instantiated
          ELSE /\ call'.returned.kind # "None"
               /\ raised' = "none" =>
                    /\ call'.instantiated
                    /\ call'.returned.kind = "node"
                    /\ call'.returned.fn = "output"
                    /\ \A e \in Range(call'.returned.args) :
                          /\ ParamOf(e.arg) \in DOMAIN call'.kwargs
                          /\ call'.kwargs[ParamOf(e.arg)] = e.val
                          /\ e.val # None
                    /\ \A i \in DOMAIN OutputStreamTable :
                          LET param == OutputStreamTable[i].param
                          IN (param \in DOMAIN call'.kwargs /\ param # "end_position") =>
                                (call'.kwargs[param] # None =>
                                    OutputStreamTable[i].arg \in Keys(call'.returned.args))
      ]_vars

\* A call with a name that is not registered has returned None.
C8_Witness ==
    /\ call.fn = "generate_output_stream"
    /\ call.name \notin registry
    /\ call.returned = [kind |-> "None"]
    /\ DOMAIN call.kwargs # {}

\* The member of the group g that comes first among those in the set P.
FirstPresent(g, P) ==
    g[CHOOSE k \in DOMAIN g : g[k] \in P /\ \A m \in 1..(k - 1) : g[m] \notin P]

\* What the claim says of the rendered mapping and the recorded groups.
Resolved ==
    /\ \A e \in Range(cache) : e \in Range(options)
    /\ \A gi \in DOMAIN mutually_exclusive :
          LET g == mutually_exclusive[gi]
              before == Range(g) \cap Present
              after == Range(g) \cap Keys(cache)
          IN /\ before # {} => after = {FirstPresent(g, Present)}
             /\ Cardinality(before) <= 1 => after = before
    /\ \A arg \in Present :
          (\A gi \in DOMAIN mutually_exclusive : arg \notin Range(mutually_exclusive[gi]))
              => arg \in Keys(cache)

\* C9, as claimed: whatever groups _define_mutually_exclusive recorded,
\* groups that share a flag included, the rendered mapping keeps of every
\* group exactly the first member that was present, and leaves the options
\* of no group and the groups with at most one member present as they were.
C9_AnyGroups == RenderedOutput => Resolved

\* No flag is named twice in the recorded groups, in one group or in two.
NoFlagTwice ==
    \A gi, gj \in DOMAIN mutually_exclusive :
        \A a \in DOMAIN mutually_exclusive[gi], b \in DOMAIN mutually_exclusive[gj] :
            (gi # gj \/ a # b) => mutually_exclusive[gi][a] # mutually_exclusive[gj][b]

\* C9, amended: the same, for groups that name no flag twice, neither in
\* one group nor in two; for these the read raises nothing either.
C9_DisjointGroups ==
    (pc = "instance" /\ cls = "OutputStream" /\ NoFlagTwice) =>
        /\ raised = "none"
        /\ cached => Resolved

\* Two groups recorded, no flag twice, and the first has removed to.
C9_Witness ==
    /\ RenderedOutput
    /\ Len(mutually_exclusive) >= 2
    /\ NoFlagTwice
    /\ {"t", "to"} \subseteq Present
    /\ "to" \notin Keys(cache)

SchemaNames(parameters) == {parameters[i].name : i \in DOMAIN parameters}

\* C10: keyword arguments named as global_options_parameters() names them
\* are accepted by generate_global_options, and those named as
\* output_stream_parameters() names them by the constructor
\* generate_output_stream calls: no such call ends in a TypeError for an
\* unexpected keyword argument.
C10_SchemaNamesAccepted ==
    /\ (call.fn = "generate_global_options"
          /\ DOMAIN call.kwargs \subseteq SchemaNames(global_options_parameters)) =>
            raised # "TypeError: unexpected keyword argument"
    /\ (call.fn = "generate_output_stream"
          /\ DOMAIN call.kwargs \subseteq SchemaNames(output_stream_parameters)) =>
            raised # "TypeError: unexpected keyword argument"

=============================================================================
